---- MODULE Spec2Model ----
(***************************************************************************)
(* A model of grnode (src/grnode.go): renderGraph, which serialises a      *)
(* graph to a DOT document, hands it to the external renderer `dot -Tsvg`  *)
(* and extracts the SVG payload, and main, the command-line flow around    *)
(* it.  Go strings and byte slices are sequences of one-character strings. *)
(***************************************************************************)
EXTENDS Integers, Sequences, FiniteSets, TLC

VARIABLES
    \* renderGraph's parameters
    graphMeta, nodes, edges, dotOutput,
    \* renderGraph's locals and its result
    in, i, nodeIndexMap, e, out, ret, pc,
    \* the world outside the process that renderGraph acts on
    dotFile, cmdStdin, dotWritable, cmdResult,
    \* main's flags, input files, locals and effects
    flags, nodesFile, edgesFile, mpc, nodeStrings, edgeStrings, li,
    mNodes, mEdges, svgFile, svgWritable, stderr, exitCode

renderVars == <<graphMeta, nodes, edges, dotOutput, in, i, nodeIndexMap, e,
                out, ret, pc, dotFile, cmdStdin>>
envVars    == <<dotWritable, cmdResult, svgWritable>>
mainVars   == <<flags, nodesFile, edgesFile, mpc, nodeStrings, edgeStrings, li,
                mNodes, mEdges, svgFile, stderr, exitCode>>
vars       == <<renderVars, envVars, mainVars>>

----------------------------------------------------------------------------
(* Bounds of the model. *)

MaxNodes  == 2
MaxEdges  == 2
MaxSynLen == 4
MaxChunks == 3
MaxLines  == 2

----------------------------------------------------------------------------
(* Strings. *)

\* A Go string literal as the sequence of its characters.
Chars(s) == [k \in 1..Len(s) |-> SubSeq(s, k, k)]

Min(S) == CHOOSE x \in S : \A y \in S : x <= y

\* fmt's %d for a non-negative int.
RECURSIVE Itoa(_)
Itoa(n) ==
    LET digit == Chars("0123456789")
    IN  IF n < 10 THEN <<digit[n + 1]>>
        ELSE Itoa(n \div 10) \o <<digit[(n % 10) + 1]>>

\* strings.Index / bytes.Index: the 0-based index of the first occurrence of
\* sub in s, or -1.
Index(s, sub) ==
    LET at == {k \in 0..(Len(s) - Len(sub)) :
                  SubSeq(s, k + 1, k + Len(sub)) = sub}
    IN  IF at = {} THEN -1 ELSE Min(at)

\* strings.Replace(s, old, new, n) for a non-empty old; n < 0 replaces every
\* occurrence, scanning left to right.
RECURSIVE Replace(_, _, _, _)
Replace(s, old, new, n) ==
    LET j == Index(s, old)
    IN  IF n = 0 \/ old = new \/ j < 0 THEN s
        ELSE SubSeq(s, 1, j) \o new
             \o Replace(SubSeq(s, j + Len(old) + 1, Len(s)), old, new, n - 1)

\* strings.Split(s, sep) for a non-empty sep.
RECURSIVE Split(_, _)
Split(s, sep) ==
    LET j == Index(s, sep)
    IN  IF j < 0 THEN <<s>>
        ELSE <<SubSeq(s, 1, j)>>
             \o Split(SubSeq(s, j + Len(sep) + 1, Len(s)), sep)

\* unicode.IsSpace on the ASCII range (the vertical tab, which has no
\* escape here, left out).
IsSpace(c) == c \in {" ", "\t", "\n", "\r", "\f"}

\* strings.TrimSpace.
RECURSIVE TrimLeft(_)
TrimLeft(s) ==
    IF s # <<>> /\ IsSpace(Head(s)) THEN TrimLeft(Tail(s)) ELSE s

RECURSIVE TrimRight(_)
TrimRight(s) ==
    IF s # <<>> /\ IsSpace(s[Len(s)]) THEN TrimRight(SubSeq(s, 1, Len(s) - 1))
    ELSE s

TrimSpace(s) == TrimRight(TrimLeft(s))

\* strings.HasPrefix.
HasPrefix(s, prefix) ==
    Len(s) >= Len(prefix) /\ SubSeq(s, 1, Len(prefix)) = prefix

----------------------------------------------------------------------------
(* Data types. *)

NodeData(name, path, synopsis, url) ==
    [Name |-> name, Path |-> path, Synopsis |-> synopsis, URL |-> url]

GraphMetadata(name, bg, font) ==
    [Name |-> name, BackgroundColor |-> bg, FontName |-> font]

EdgeData(from, to, relation, color, style) ==
    [From |-> from, To |-> to, Relation |-> relation, Color |-> color,
     Style |-> style]

\* What renderGraph returns: ([]byte, error).  A nil slice is pNil.
Returned(p, err) == [p |-> p, pNil |-> FALSE, err |-> err]
Failed(err)      == [p |-> <<>>, pNil |-> TRUE, err |-> err]
NotReturned      == [p |-> <<>>, pNil |-> TRUE, err |-> "pending"]

\* A file of the file system: absent, or present with its content.
NoFile       == [exists |-> FALSE, data |-> <<>>]
FileOf(data) == [exists |-> TRUE, data |-> data]

\* The external renderer's behaviour: exit status and standard output.
CmdFails   == [fails |-> TRUE, stdout |-> <<>>]
CmdOut(s)  == [fails |-> FALSE, stdout |-> s]

\* The sequences over S of length at most n.
SeqsUpTo(S, n) == UNION {[1..k -> S] : k \in 0..n}

----------------------------------------------------------------------------
(* renderGraph: what each Fprintf appends to the buffer `in`. *)

\* Faulty variant of GraphHeader: the bgcolor line is written unconditionally.
GraphHeaderAlwaysBg(meta) ==
    Chars("digraph ") \o meta.Name \o Chars(" { \n")
    \o Chars("  bgcolor=\"") \o meta.BackgroundColor \o Chars("\";\n")
    \o (IF meta.FontName # <<>>
        THEN Chars("  fontname=\"") \o meta.FontName \o Chars("\";\n")
        ELSE <<>>)
    \o Chars("  node [shape=box, style=filled, fillcolor=\"#e0e0e0\", fontname=\"Arial\"];\n")
    \o Chars("  edge [color=\"#555555\", fontname=\"Arial\"];\n")

\* Lines 85-95: the header, the optional graph attributes and the two
\* default styles.
GraphHeader(meta) ==
    Chars("digraph ") \o meta.Name \o Chars(" { \n")
    \o (IF meta.BackgroundColor # <<>>
        THEN Chars("  bgcolor=\"") \o meta.BackgroundColor \o Chars("\";\n")
        ELSE <<>>)
    \o (IF meta.FontName # <<>>
        THEN Chars("  fontname=\"") \o meta.FontName \o Chars("\";\n")
        ELSE <<>>)
    \o Chars("  node [shape=box, style=filled, fillcolor=\"#e0e0e0\", fontname=\"Arial\"];\n")
    \o Chars("  edge [color=\"#555555\", fontname=\"Arial\"];\n")

\* Faulty variant of Tooltip: only the first double quote is replaced.
TooltipFirstOnly(synopsis) == Replace(synopsis, Chars("\""), Chars("\\\""), 1)

\* Line 100: the tooltip's value, strings.Replace(node.Synopsis, `"`, `\"`, -1).
Tooltip(synopsis) == Replace(synopsis, Chars("\""), Chars("\\\""), -1)

\* Faulty variant of NodeDecl: identifiers count from one.
NodeDeclOneBased(idx, node) ==
    Chars("  n") \o Itoa(idx + 1) \o Chars(" [label=\"") \o node.Name
    \o Chars("\", URL=\"") \o node.URL
    \o Chars("\", tooltip=\"") \o Tooltip(node.Synopsis) \o Chars("\"];\n")

\* Lines 98-100: one node declaration, keyed by the loop index.
NodeDecl(idx, node) ==
    Chars("  n") \o Itoa(idx) \o Chars(" [label=\"") \o node.Name
    \o Chars("\", URL=\"") \o node.URL
    \o Chars("\", tooltip=\"") \o Tooltip(node.Synopsis) \o Chars("\"];\n")

\* Faulty variant of IndexMapUpTo: an entry, once made, is kept.
RECURSIVE IndexMapKeepFirst(_, _)
IndexMapKeepFirst(ns, k) ==
    IF k = 0 THEN <<>>
    ELSE LET m  == IndexMapKeepFirst(ns, k - 1)
             nm == ns[k].Name
         IN  [x \in DOMAIN m \cup {nm} |->
                 IF x \in DOMAIN m THEN m[x] ELSE k - 1]

\* Lines 104-107: nodeIndexMap after the loop over nodes[1..k]: each
\* iteration assigns nodeIndexMap[node.Name] = i, overwriting an earlier
\* entry of that name.
RECURSIVE IndexMapUpTo(_, _)
IndexMapUpTo(ns, k) ==
    IF k = 0 THEN <<>>
    ELSE LET m  == IndexMapUpTo(ns, k - 1)
             nm == ns[k].Name
         IN  [x \in DOMAIN m \cup {nm} |-> IF x = nm THEN k - 1 ELSE m[x]]

BuildKeepFirst(ns) == IndexMapKeepFirst(ns, Len(ns))

\* Lines 104-107: the map the loop leaves.
BuildNodeIndexMap(ns) == IndexMapUpTo(ns, Len(ns))

\* Faulty variant of EdgeFound: the lookup's result is not checked.
EdgeAlwaysFound(m, edge) == TRUE

\* Lines 110-112: fromFound && toFound for one edge.
EdgeFound(m, edge) == edge.From \in DOMAIN m /\ edge.To \in DOMAIN m

\* The index the map gives a name (Go's zero value when it is absent).
Lookup(m, nm) == IF nm \in DOMAIN m THEN m[nm] ELSE 0

\* Faulty variants of EdgeStatement: the endpoints swapped; a bare edge
\* left without its terminator.
EdgeStatementSwapped(fromIndex, toIndex, edge) ==
    Chars("  n") \o Itoa(toIndex) \o Chars(" -> n") \o Itoa(fromIndex)
    \o Chars(";\n")

EdgeStatementNoNewline(fromIndex, toIndex, edge) ==
    LET any == edge.Relation # <<>> \/ edge.Color # <<>> \/ edge.Style # <<>>
    IN  Chars("  n") \o Itoa(fromIndex) \o Chars(" -> n") \o Itoa(toIndex)
        \o (IF any THEN Chars(" [label=\"") \o edge.Relation \o Chars("\"];\n")
            ELSE Chars("  "))

\* Lines 115-140: one edge statement, from "  n%d -> n%d" to ";\n", with
\* hasAttributes (h1, h2) as the code maintains it: set by the label and the
\* color branches, not by the style branch.
EdgeStatement(fromIndex, toIndex, edge) ==
    LET s0 == Chars("  n") \o Itoa(fromIndex) \o Chars(" -> n") \o Itoa(toIndex)
        s1 == IF edge.Relation # <<>>
              THEN s0 \o Chars(" [label=\"") \o edge.Relation \o Chars("\"")
              ELSE s0
        h1 == edge.Relation # <<>>
        s2 == IF edge.Color # <<>>
              THEN IF ~h1
                   THEN s1 \o Chars(" [color=\"") \o edge.Color \o Chars("\"")
                   ELSE s1 \o Chars(", color=\"") \o edge.Color \o Chars("\"")
              ELSE s1
        h2 == h1 \/ edge.Color # <<>>
        s3 == IF edge.Style # <<>>
              THEN IF ~h2
                   THEN s2 \o Chars(" [style=\"") \o edge.Style \o Chars("\"")
                   ELSE s2 \o Chars(", style=\"") \o edge.Style \o Chars("\"")
              ELSE s2
        s4 == IF h2 THEN s3 \o Chars("]") ELSE s3
    IN  s4 \o Chars(";\n")

\* Faulty variant of Extract: the payload starts at the last marker.
ExtractLastMarker(p) ==
    LET at == {k \in 0..(Len(p) - 4) : SubSeq(p, k + 1, k + 4) = Chars("<svg")}
        k  == CHOOSE x \in at : \A y \in at : y <= x
    IN  IF at = {} THEN Failed("<svg not found")
        ELSE Returned(SubSeq(p, k + 1, Len(p)), "nil")

\* Lines 159-165: the payload, everything from the first "<svg" on, or the
\* error.
Extract(p) ==
    LET k == Index(p, Chars("<svg"))
    IN  IF k < 0 THEN Failed("<svg not found")
        ELSE Returned(SubSeq(p, k + 1, Len(p)), "nil")

----------------------------------------------------------------------------
(* renderGraph, step by step. *)

\* Lines 82-95: the buffers are empty, then the header is written.
RenderHeader ==
    /\ pc = "header"
    /\ in' = GraphHeader(graphMeta)
    /\ i' = 0
    /\ pc' = "nodes"
    /\ UNCHANGED <<graphMeta, nodes, edges, dotOutput, nodeIndexMap, e, out,
                   ret, dotFile, cmdStdin, envVars, mainVars>>

\* Lines 97-101: one iteration of the loop over nodes, or its end.
RenderNode ==
    /\ pc = "nodes"
    /\ IF i < Len(nodes)
       THEN /\ in' = in \o NodeDecl(i, nodes[i + 1])
            /\ i' = i + 1
            /\ pc' = pc
       ELSE /\ pc' = "map"
            /\ UNCHANGED <<in, i>>
    /\ UNCHANGED <<graphMeta, nodes, edges, dotOutput, nodeIndexMap, e, out,
                   ret, dotFile, cmdStdin, envVars, mainVars>>

\* Lines 103-107: the whole loop that fills nodeIndexMap.
BuildMap ==
    /\ pc = "map"
    /\ nodeIndexMap' = BuildNodeIndexMap(nodes)
    /\ e' = 0
    /\ pc' = "edges"
    /\ UNCHANGED <<graphMeta, nodes, edges, dotOutput, in, i, out, ret,
                   dotFile, cmdStdin, envVars, mainVars>>

\* Lines 109-141: one iteration of the loop over edges (an unknown node
\* returns the error at once), or its end.
RenderEdge ==
    /\ pc = "edges"
    /\ IF e < Len(edges)
       THEN LET edge == edges[e + 1]
            IN  IF ~EdgeFound(nodeIndexMap, edge)
                THEN /\ ret' = Failed("error: edge refers to unknown node(s)")
                     /\ pc' = "returned"
                     /\ UNCHANGED <<in, e>>
                ELSE /\ in' = in \o EdgeStatement(Lookup(nodeIndexMap, edge.From),
                                                  Lookup(nodeIndexMap, edge.To),
                                                  edge)
                     /\ e' = e + 1
                     /\ UNCHANGED <<ret, pc>>
       ELSE /\ pc' = "close"
            /\ UNCHANGED <<in, e, ret>>
    /\ UNCHANGED <<graphMeta, nodes, edges, dotOutput, i, nodeIndexMap, out,
                   dotFile, cmdStdin, envVars, mainVars>>

\* Line 142.
CloseGraph ==
    /\ pc = "close"
    /\ in' = in \o Chars("}")
    /\ pc' = "dot"
    /\ UNCHANGED <<graphMeta, nodes, edges, dotOutput, i, nodeIndexMap, e, out,
                   ret, dotFile, cmdStdin, envVars, mainVars>>

\* Lines 144-150: the DOT debug file, when one was asked for.
WriteDot ==
    /\ pc = "dot"
    /\ IF dotOutput = <<>>
       THEN /\ pc' = "run"
            /\ UNCHANGED <<dotFile, ret>>
       ELSE IF dotWritable
            THEN /\ dotFile' = FileOf(in)
                 /\ pc' = "run"
                 /\ UNCHANGED ret
            ELSE /\ ret' = Failed("error writing DOT file")
                 /\ pc' = "returned"
                 /\ UNCHANGED dotFile
    /\ UNCHANGED <<graphMeta, nodes, edges, dotOutput, in, i, nodeIndexMap, e,
                   out, cmdStdin, envVars, mainVars>>

\* Lines 152-157: `dot -Tsvg` reads the buffer and writes to out.
RunCmd ==
    /\ pc = "run"
    /\ cmdStdin' = FileOf(in)
    /\ IF cmdResult.fails
       THEN /\ ret' = Failed("exit status")
            /\ pc' = "returned"
            /\ UNCHANGED out
       ELSE /\ out' = cmdResult.stdout
            /\ pc' = "extract"
            /\ UNCHANGED ret
    /\ UNCHANGED <<graphMeta, nodes, edges, dotOutput, in, i, nodeIndexMap, e,
                   dotFile, envVars, mainVars>>

\* Lines 159-165.
ExtractSvg ==
    /\ pc = "extract"
    /\ ret' = Extract(out)
    /\ pc' = "returned"
    /\ UNCHANGED <<graphMeta, nodes, edges, dotOutput, in, i, nodeIndexMap, e,
                   out, dotFile, cmdStdin, envVars, mainVars>>

Next ==
    \/ RenderHeader
    \/ RenderNode
    \/ BuildMap
    \/ RenderEdge
    \/ CloseGraph
    \/ WriteDot
    \/ RunCmd
    \/ ExtractSvg

----------------------------------------------------------------------------
(* The state when renderGraph is entered with given arguments, in a given   *)
(* environment; main has not run.                                           *)

\* The flags as main reads them after flag.Parse (lines 170-180); the three
\* file names are fixed and not modelled.
Flags(version, genconfig, name, bgcolor, fontname, dot) ==
    [version |-> version, genconfig |-> genconfig, name |-> name,
     bgcolor |-> bgcolor, fontname |-> fontname, dot |-> dot]

DefaultFlags == Flags(FALSE, FALSE, Chars("MyGraph"), <<>>, <<>>, <<>>)

MainIdle ==
    /\ flags = DefaultFlags
    /\ nodesFile = NoFile /\ edgesFile = NoFile
    /\ mpc = "none"
    /\ nodeStrings = <<>> /\ edgeStrings = <<>> /\ li = 0
    /\ mNodes = <<>> /\ mEdges = <<>>
    /\ svgFile = NoFile /\ svgWritable = TRUE
    /\ stderr = "" /\ exitCode = -1

RenderLocalsFresh ==
    /\ in = <<>> /\ i = 0 /\ nodeIndexMap = <<>> /\ e = 0 /\ out = <<>>
    /\ ret = NotReturned
    /\ dotFile = NoFile /\ cmdStdin = NoFile

InitRender(metas, nodeSeqs, edgeSeqs, dotOutputs, cmdResults) ==
    /\ graphMeta \in metas
    /\ nodes \in nodeSeqs
    /\ edges \in edgeSeqs
    /\ dotOutput \in dotOutputs
    /\ dotWritable \in (IF dotOutput = <<>> THEN {TRUE} ELSE BOOLEAN)
    /\ cmdResult \in cmdResults
    /\ pc = "header"
    /\ RenderLocalsFresh
    /\ MainIdle

\* Input values.
NameA == Chars("a")
NameB == Chars("b")
Names == {NameA, NameB}
Empty == <<>>

PlainMeta == GraphMetadata(Chars("G"), Empty, Empty)
Metas     == {GraphMetadata(Chars("G"), bg, font) :
                 bg \in {Empty, Chars("tan")}, font \in {Empty, Chars("Mono")}}

NodeOf(nm)  == NodeData(nm, Chars("p"), Chars("s"), Chars("/") \o nm)
PlainNodes  == {NodeOf(nm) : nm \in Names}
DotOutputs  == {Empty, Chars("g.dot")}
SvgStream   == Chars("<?xml?><svg></svg>")
CmdResults  == {CmdFails, CmdOut(SvgStream)}

\* Graph structure: every node sequence over two names (duplicates
\* included) and every sequence of bare edges over them.
StructEdges == {EdgeData(f, t, Empty, Empty, Empty) : f \in Names, t \in Names}

Init ==
    InitRender({PlainMeta},
               SeqsUpTo(PlainNodes, MaxNodes),
               SeqsUpTo(StructEdges, MaxEdges),
               DotOutputs, CmdResults)

Spec == Init /\ [][Next]_vars

----------------------------------------------------------------------------
(* main, step by step. *)

Exit(code, msg) ==
    /\ mpc' = "exited"
    /\ exitCode' = code
    /\ stderr' = msg

\* Lines 182-200: -version and -genconfig print and exit.
MainFlags ==
    /\ mpc = "flags"
    /\ IF flags.version \/ flags.genconfig
       THEN Exit(0, "")
       ELSE /\ mpc' = "readNodes"
            /\ UNCHANGED <<stderr, exitCode>>
    /\ UNCHANGED <<flags, nodesFile, edgesFile, nodeStrings, edgeStrings, li,
                   mNodes, mEdges, svgFile, renderVars, envVars>>

\* Lines 203-209: read the nodes file and split it into lines.
ReadNodes ==
    /\ mpc = "readNodes"
    /\ IF ~nodesFile.exists
       THEN /\ Exit(1, "Error reading nodes file")
            /\ UNCHANGED <<nodeStrings, li, mNodes>>
       ELSE /\ nodeStrings' = Split(nodesFile.data, Chars("\n"))
            /\ mNodes' = <<>>
            /\ li' = 0
            /\ mpc' = "parseNodes"
            /\ UNCHANGED <<stderr, exitCode>>
    /\ UNCHANGED <<flags, nodesFile, edgesFile, edgeStrings, mEdges, svgFile,
                   renderVars, envVars>>

\* A node line's fields make a NodeData (lines 220-225).
ParseNode(parts) ==
    NodeData(TrimSpace(parts[1]), TrimSpace(parts[2]), TrimSpace(parts[3]),
             TrimSpace(parts[4]))

\* Faulty variant of NodePartsOk: extra fields are tolerated.
NodePartsAtLeast4(parts) == Len(parts) >= 4

\* Line 216: the field count main accepts for a node line.
NodePartsOk(parts) == Len(parts) = 4

\* Lines 210-226: one iteration of the loop over the node lines, or its end.
ParseNodeLine ==
    /\ mpc = "parseNodes"
    /\ IF li < Len(nodeStrings)
       THEN LET line  == TrimSpace(nodeStrings[li + 1])
                parts == Split(line, Chars("|"))
            IN  IF line = <<>> \/ HasPrefix(line, Chars("#"))
                THEN /\ li' = li + 1
                     /\ UNCHANGED <<mNodes, mpc, stderr, exitCode>>
                ELSE IF ~NodePartsOk(parts)
                THEN /\ Exit(1, "Error: Invalid node format")
                     /\ UNCHANGED <<li, mNodes>>
                ELSE /\ mNodes' = Append(mNodes, ParseNode(parts))
                     /\ li' = li + 1
                     /\ UNCHANGED <<mpc, stderr, exitCode>>
       ELSE /\ mpc' = "readEdges"
            /\ UNCHANGED <<li, mNodes, stderr, exitCode>>
    /\ UNCHANGED <<flags, nodesFile, edgesFile, nodeStrings, edgeStrings,
                   mEdges, svgFile, renderVars, envVars>>

\* Lines 229-235: read the edges file and split it into lines.
ReadEdges ==
    /\ mpc = "readEdges"
    /\ IF ~edgesFile.exists
       THEN /\ Exit(1, "Error reading edges file")
            /\ UNCHANGED <<edgeStrings, li, mEdges>>
       ELSE /\ edgeStrings' = Split(edgesFile.data, Chars("\n"))
            /\ mEdges' = <<>>
            /\ li' = 0
            /\ mpc' = "parseEdges"
            /\ UNCHANGED <<stderr, exitCode>>
    /\ UNCHANGED <<flags, nodesFile, edgesFile, nodeStrings, mNodes, svgFile,
                   renderVars, envVars>>

\* An edge line's fields make an EdgeData (lines 246-258): the optional
\* fields stay empty when absent or blank.
ParseEdge(parts) ==
    LET opt(k) == IF Len(parts) >= k /\ TrimSpace(parts[k]) # <<>>
                  THEN TrimSpace(parts[k]) ELSE <<>>
    IN  EdgeData(TrimSpace(parts[1]), TrimSpace(parts[2]), opt(3), opt(4),
                 opt(5))

\* The field count main accepts for an edge line (line 242).
EdgePartsOk(parts) == ~(Len(parts) < 2)

\* Lines 236-260: one iteration of the loop over the edge lines, or its end.
ParseEdgeLine ==
    /\ mpc = "parseEdges"
    /\ IF li < Len(edgeStrings)
       THEN LET line  == TrimSpace(edgeStrings[li + 1])
                parts == Split(line, Chars(","))
            IN  IF line = <<>> \/ HasPrefix(line, Chars("#"))
                THEN /\ li' = li + 1
                     /\ UNCHANGED <<mEdges, mpc, stderr, exitCode>>
                ELSE IF ~EdgePartsOk(parts)
                THEN /\ Exit(1, "Error: Invalid edge format")
                     /\ UNCHANGED <<li, mEdges>>
                ELSE /\ mEdges' = Append(mEdges, ParseEdge(parts))
                     /\ li' = li + 1
                     /\ UNCHANGED <<mpc, stderr, exitCode>>
       ELSE /\ mpc' = "render"
            /\ UNCHANGED <<li, mEdges, stderr, exitCode>>
    /\ UNCHANGED <<flags, nodesFile, edgesFile, nodeStrings, edgeStrings,
                   mNodes, svgFile, renderVars, envVars>>

\* Lines 263-268: renderGraph is entered with main's records.
CallRender ==
    /\ mpc = "render"
    /\ graphMeta' = GraphMetadata(flags.name, flags.bgcolor, flags.fontname)
    /\ nodes' = mNodes
    /\ edges' = mEdges
    /\ dotOutput' = flags.dot
    /\ pc' = "header"
    /\ mpc' = "inRender"
    /\ UNCHANGED <<in, i, nodeIndexMap, e, out, ret, dotFile, cmdStdin,
                   envVars, flags, nodesFile, edgesFile, nodeStrings,
                   edgeStrings, li, mNodes, mEdges, svgFile, stderr, exitCode>>

\* Lines 269-282: renderGraph has returned; the SVG file is written.
WriteSvg ==
    /\ mpc = "inRender"
    /\ pc = "returned"
    /\ IF ret.err # "nil"
       THEN /\ Exit(1, "Error generating graph")
            /\ UNCHANGED svgFile
       ELSE IF ~svgWritable
            THEN /\ Exit(1, "Error writing to output")
                 /\ UNCHANGED svgFile
            ELSE /\ svgFile' = FileOf(ret.p)
                 /\ Exit(0, "")
    /\ UNCHANGED <<flags, nodesFile, edgesFile, nodeStrings, edgeStrings, li,
                   mNodes, mEdges, renderVars, envVars>>

NextMain ==
    \/ MainFlags
    \/ ReadNodes
    \/ ParseNodeLine
    \/ ReadEdges
    \/ ParseEdgeLine
    \/ CallRender
    \/ WriteSvg
    \/ Next

----------------------------------------------------------------------------
(* Specifications: the same steps from different sets of inputs. *)

\* The text that a sequence of pieces makes, a separator between them.
RECURSIVE Join(_, _)
Join(ss, sep) ==
    IF ss = <<>> THEN <<>>
    ELSE IF Len(ss) = 1 THEN ss[1]
    ELSE ss[1] \o sep \o Join(Tail(ss), sep)

\* Edge attributes: every subset of {relation, color, style} on edges from
\* the first of two distinct nodes.
TwoNodes  == <<NodeOf(NameA), NodeOf(NameB)>>
AttrEdges == {EdgeData(NameA, t, r, c, st) :
                 t \in Names, r \in {Empty, Chars("uses")},
                 c \in {Empty, Chars("red")}, st \in {Empty, Chars("dashed")}}

InitAttrs ==
    InitRender({PlainMeta}, {TwoNodes}, SeqsUpTo(AttrEdges, MaxEdges),
               {Empty}, {CmdOut(SvgStream)})

SpecAttrs == InitAttrs /\ [][Next]_vars

\* Graph metadata: background color and font name, each set or not.
InitMeta ==
    InitRender(Metas, SeqsUpTo(PlainNodes, MaxNodes),
               SeqsUpTo({EdgeData(NameA, NameA, Empty, Empty, Empty)}, MaxEdges),
               {Empty}, {CmdOut(SvgStream)})

SpecMeta == InitMeta /\ [][Next]_vars

\* Synopses over an alphabet with the double quote and the backslash.
SynAlphabet == {"a", "\"", "\\"}
Synopses    == SeqsUpTo(SynAlphabet, MaxSynLen)

InitEscape ==
    InitRender({PlainMeta},
               {<<NodeData(NameA, Chars("p"), syn, Chars("/a"))>> :
                   syn \in Synopses},
               {<<>>, <<EdgeData(NameA, NameA, Empty, Empty, Empty)>>},
               {Empty}, {CmdOut(SvgStream)})

SpecEscape == InitEscape /\ [][Next]_vars

\* Renderer output: chunks that hold the marker, a part of it, or neither.
Marker    == Chars("<svg")
Chunks    == {Marker, Chars("<s"), Chars("x")}
RECURSIVE Flatten(_)
Flatten(ss) == IF ss = <<>> THEN <<>> ELSE Head(ss) \o Flatten(Tail(ss))
Streams   == {Flatten(cs) : cs \in SeqsUpTo(Chunks, MaxChunks)}

InitExtract ==
    InitRender({PlainMeta}, {<<NodeOf(NameA)>>},
               {<<EdgeData(NameA, NameA, Empty, Empty, Empty)>>},
               {Empty}, {CmdFails} \cup {CmdOut(st) : st \in Streams})

SpecExtract == InitExtract /\ [][Next]_vars

\* The command line: files of node lines and of edge lines.
NodeLineSet ==
    { Chars("a|p|s|/a"), Chars(" b | p | s | /b "), Chars("# n"), Chars(""),
      Chars("a|p|s"), Chars("a|p|s|/a|x") }
EdgeLineSet ==
    { Chars("a,b"), Chars(" b , a , uses , red , dashed "), Chars(" # e"),
      Chars("a"), Chars("a,b,,,dashed") }

FilesOf(lineSet) ==
    {FileOf(Join(ls, Chars("\n"))) :
        ls \in SeqsUpTo(lineSet, MaxLines) \ {<<>>}}

GoodNodesFile == FileOf(Chars("a|p|s|/a\nb|p|s|/b\n"))
GoodEdgesFile == FileOf(Chars("a,b,uses\n"))
DotFlags      == Flags(FALSE, FALSE, Chars("MyGraph"), <<>>, <<>>, Chars("g.dot"))

InitMain ==
    /\ graphMeta = GraphMetadata(<<>>, <<>>, <<>>)
    /\ nodes = <<>> /\ edges = <<>> /\ dotOutput = <<>>
    /\ pc = "idle"
    /\ RenderLocalsFresh
    /\ mpc = "flags"
    /\ nodeStrings = <<>> /\ edgeStrings = <<>> /\ li = 0
    /\ mNodes = <<>> /\ mEdges = <<>>
    /\ svgFile = NoFile /\ stderr = "" /\ exitCode = -1
    /\ \/ /\ flags = DotFlags
          /\ nodesFile \in FilesOf(NodeLineSet)
          /\ edgesFile \in FilesOf(EdgeLineSet)
          /\ dotWritable = TRUE /\ svgWritable = TRUE
          /\ cmdResult = CmdOut(SvgStream)
       \/ /\ flags \in {Flags(v, g, Chars("MyGraph"), Empty, Chars("Mono"), d) :
                           v \in BOOLEAN, g \in BOOLEAN, d \in DotOutputs}
          /\ nodesFile \in {NoFile, GoodNodesFile}
          /\ edgesFile \in {NoFile, GoodEdgesFile}
          /\ dotWritable \in BOOLEAN /\ svgWritable \in BOOLEAN
          /\ cmdResult \in {CmdFails, CmdOut(SvgStream), CmdOut(Chars("x"))}

SpecMain == InitMain /\ [][NextMain]_vars

----------------------------------------------------------------------------
(* Vocabulary of the properties: the document read back as lines. *)

RefErr == "error: edge refers to unknown node(s)"

\* The buffer holds the whole document: the closing brace was written.
DocComplete ==
    \/ pc \in {"dot", "run", "extract"}
    \/ pc = "returned" /\ ret.err # RefErr

DocLines == Split(in, Chars("\n"))

\* The document ends with the edge statements and the closing brace, and the
\* node declarations come right before them.
EdgeLine(ls, j) == ls[Len(ls) - 1 - Len(edges) + j]
NodeLine(ls, j) == ls[Len(ls) - 1 - Len(edges) - Len(nodes) + j]

\* A positional identifier n<k>, for k below ten.
Ident(k) == <<"n", CHOOSE d \in {"0", "1", "2", "3", "4", "5", "6", "7", "8", "9"} :
                    Chars("0123456789")[k + 1] = d>>

Contains(s, sub) ==
    \E k \in 1..(Len(s) - Len(sub) + 1) : SubSeq(s, k, k + Len(sub) - 1) = sub

NodeNames == {nodes[k].Name : k \in 1..Len(nodes)}
Occurrences(nm) == {k - 1 : k \in {x \in 1..Len(nodes) : nodes[x].Name = nm}}
FirstIndex(nm)  == CHOOSE x \in Occurrences(nm) : \A y \in Occurrences(nm) : x <= y
LastIndex(nm)   == CHOOSE x \in Occurrences(nm) : \A y \in Occurrences(nm) : y <= x

\* The statement begins `  n<a> -> n<b>` and the identifier ends there.
EdgeLineJoins(line, a, b) ==
    LET head == Chars("  ") \o Ident(a) \o Chars(" -> ") \o Ident(b)
    IN  /\ HasPrefix(line, head)
        /\ Len(line) > Len(head)
        /\ line[Len(head) + 1] \in {" ", ";"}

HasUnknownEdge ==
    \E j \in 1..Len(edges) :
        edges[j].From \notin NodeNames \/ edges[j].To \notin NodeNames

----------------------------------------------------------------------------
(* C1: when some edge names a node that is not in the node sequence,       *)
(* renderGraph returns the reference error and a nil payload, the DOT      *)
(* debug file is never written and the renderer is never invoked, however  *)
(* many earlier edges were already serialised.                             *)
C1_UnknownEdgeAbortsBeforeOutput ==
    HasUnknownEdge =>
        /\ ~dotFile.exists
        /\ ~cmdStdin.exists
        /\ pc \notin {"close", "dot", "run", "extract"}
        /\ pc = "returned" => ret.pNil /\ ret.err = RefErr

C1_Witness ==
    /\ pc = "returned"
    /\ ret.err = RefErr
    /\ e >= 1
    /\ dotOutput # <<>>
    /\ dotWritable

(* C2 as stated: a duplicated name maps to the index of its first          *)
(* occurrence, and edges naming it are emitted with that index.            *)
C2_FirstOccurrenceWins ==
    /\ pc \in {"edges", "close", "dot", "run", "extract", "returned"} =>
           \A nm \in NodeNames : nodeIndexMap[nm] = FirstIndex(nm)
    /\ DocComplete =>
           LET ls == DocLines
           IN  \A j \in 1..Len(edges) :
                   EdgeLineJoins(EdgeLine(ls, j), FirstIndex(edges[j].From),
                                 FirstIndex(edges[j].To))

(* C2 amended: a duplicated name maps to the index of its LAST occurrence, *)
(* and every edge naming it is emitted with that index.                    *)
C2_LastOccurrenceWins ==
    /\ pc \in {"edges", "close", "dot", "run", "extract", "returned"} =>
           /\ DOMAIN nodeIndexMap = NodeNames
           /\ \A nm \in NodeNames : nodeIndexMap[nm] = LastIndex(nm)
    /\ DocComplete =>
           LET ls == DocLines
           IN  \A j \in 1..Len(edges) :
                   EdgeLineJoins(EdgeLine(ls, j), LastIndex(edges[j].From),
                                 LastIndex(edges[j].To))

C2_Witness ==
    /\ DocComplete
    /\ Len(nodes) >= 2
    /\ nodes[1].Name = nodes[2].Name
    /\ Len(edges) >= 1
    /\ edges[1].From = nodes[1].Name

(* C5: a document for k nodes holds exactly k node declarations, and the   *)
(* one at position i is keyed n<i> and labelled with the i-th node's name, *)
(* duplicates of a name included.                                          *)
IsNodeDecl(line) ==
    HasPrefix(line, Chars("  n")) /\ Contains(line, Chars(" [label=\""))
    /\ ~Contains(line, Chars(" -> "))

C5_PositionalIdentifiers ==
    DocComplete =>
        LET ls == DocLines
        IN  /\ Cardinality({l \in 1..Len(ls) : IsNodeDecl(ls[l])}) = Len(nodes)
            /\ \A j \in 1..Len(nodes) :
                   HasPrefix(NodeLine(ls, j),
                             Chars("  ") \o Ident(j - 1) \o Chars(" [label=\"")
                             \o nodes[j].Name \o Chars("\", "))

C5_Witness ==
    /\ DocComplete
    /\ Len(nodes) >= 2
    /\ nodes[1].Name = nodes[2].Name

(* C10: a complete document holds one edge statement per input edge, in    *)
(* input order and after every node declaration; statement `n<a> -> n<b>`  *)
(* joins nodes whose names are the edge's from and to; duplicate edges and *)
(* self-loops are each emitted.                                            *)
C10_EdgesInOrder ==
    DocComplete =>
        LET ls    == DocLines
            arrow == {l \in 1..Len(ls) : Contains(ls[l], Chars(" -> "))}
        IN  /\ arrow = (Len(ls) - Len(edges))..(Len(ls) - 1)
            /\ \A j \in 1..Len(edges) :
                   \E a, b \in 0..(Len(nodes) - 1) :
                       /\ nodes[a + 1].Name = edges[j].From
                       /\ nodes[b + 1].Name = edges[j].To
                       /\ EdgeLineJoins(EdgeLine(ls, j), a, b)

C10_Witness ==
    /\ DocComplete
    /\ Len(edges) = 2
    /\ edges[1] = edges[2]
    /\ edges[1].From = edges[1].To
    /\ \E j \in 1..Len(nodes) : nodes[j].Name # edges[1].From

(* C3: a resolvable edge with any of relation, color, style set is emitted *)
(* with exactly one attribute list, opened with `[` and closed with `]`,   *)
(* holding the present attributes in the order label, color, style,        *)
(* comma-separated, and the statement ends with `;`.                       *)
PresentAttrs(edge) ==
    (IF edge.Relation # <<>>
     THEN <<Chars("label=\"") \o edge.Relation \o Chars("\"")>> ELSE <<>>)
    \o (IF edge.Color # <<>>
        THEN <<Chars("color=\"") \o edge.Color \o Chars("\"")>> ELSE <<>>)
    \o (IF edge.Style # <<>>
        THEN <<Chars("style=\"") \o edge.Style \o Chars("\"")>> ELSE <<>>)

C3_AttributeListClosed ==
    DocComplete =>
        LET ls == DocLines
        IN  \A j \in 1..Len(edges) :
                PresentAttrs(edges[j]) # <<>> =>
                    EdgeLine(ls, j) =
                        Chars("  ") \o Ident(nodeIndexMap[edges[j].From])
                        \o Chars(" -> ") \o Ident(nodeIndexMap[edges[j].To])
                        \o Chars(" [") \o Join(PresentAttrs(edges[j]), Chars(", "))
                        \o Chars("];")

RECURSIVE EscapedQuotes(_)
EscapedQuotes(syn) ==
    IF syn = <<>> THEN <<>>
    ELSE (IF Head(syn) = "\"" THEN <<"\\", "\"">> ELSE <<Head(syn)>>)
         \o EscapedQuotes(Tail(syn))

C6_TooltipEscapesQuotes ==
    DocComplete =>
        LET ls == DocLines
        IN  \A j \in 1..Len(nodes) :
                NodeLine(ls, j) =
                    Chars("  ") \o Ident(j - 1) \o Chars(" [label=\"")
                    \o nodes[j].Name \o Chars("\", URL=\"") \o nodes[j].URL
                    \o Chars("\", tooltip=\"")
                    \o EscapedQuotes(nodes[j].Synopsis) \o Chars("\"];")

C6_Witness ==
    /\ DocComplete
    /\ Len(nodes) = 1
    /\ Cardinality({k \in 1..Len(nodes[1].Synopsis) :
                       nodes[1].Synopsis[k] = "\""}) >= 2
    /\ \E k \in 1..Len(nodes[1].Synopsis) : nodes[1].Synopsis[k] = "\\"

(* C7: the bgcolor line is emitted iff backgroundColor is non-empty and    *)
(* the fontname line iff fontName is non-empty, independently; bgcolor     *)
(* comes before fontname; the two default style lines follow directly, so  *)
(* with both empty they follow the `digraph <name> {` header.              *)
NodeDefaults == Chars("  node [shape=box, style=filled, fillcolor=\"#e0e0e0\", fontname=\"Arial\"];")
EdgeDefaults == Chars("  edge [color=\"#555555\", fontname=\"Arial\"];")

C7_GraphAttributes ==
    DocComplete =>
        LET ls   == DocLines
            bgAt == {l \in 1..Len(ls) : HasPrefix(ls[l], Chars("  bgcolor="))}
            fnAt == {l \in 1..Len(ls) : HasPrefix(ls[l], Chars("  fontname="))}
            nOpt == Cardinality(bgAt) + Cardinality(fnAt)
        IN  /\ ls[1] = Chars("digraph ") \o graphMeta.Name \o Chars(" { ")
            /\ bgAt = (IF graphMeta.BackgroundColor # <<>> THEN {2} ELSE {})
            /\ fnAt = (IF graphMeta.FontName # <<>>
                       THEN {2 + Cardinality(bgAt)} ELSE {})
            /\ \A l \in bgAt :
                   ls[l] = Chars("  bgcolor=\"") \o graphMeta.BackgroundColor
                           \o Chars("\";")
            /\ \A l \in fnAt :
                   ls[l] = Chars("  fontname=\"") \o graphMeta.FontName
                           \o Chars("\";")
            /\ ls[2 + nOpt] = NodeDefaults
            /\ ls[3 + nOpt] = EdgeDefaults

C7_Witness ==
    /\ DocComplete
    /\ graphMeta.BackgroundColor = <<>>
    /\ graphMeta.FontName # <<>>
    /\ Len(nodes) >= 1

(* C9: when the renderer's output holds the marker `<svg`, the payload is  *)
(* the suffix of the output that starts at the marker's first occurrence;  *)
(* when it does not, renderGraph returns an error and no payload.          *)
MarkerAt(p, k) == k + 4 <= Len(p) /\ SubSeq(p, k + 1, k + 4) = Chars("<svg")

C9_PayloadFromFirstMarker ==
    (pc = "returned" /\ cmdStdin.exists /\ ~cmdResult.fails) =>
        LET p == cmdResult.stdout
        IN  IF \E k \in 0..Len(p) : MarkerAt(p, k)
            THEN /\ ret.err = "nil"
                 /\ ~ret.pNil
                 /\ \E k \in 0..Len(p) :
                        /\ MarkerAt(p, k)
                        /\ \A k2 \in 0..(k - 1) : ~MarkerAt(p, k2)
                        /\ ret.p = SubSeq(p, k + 1, Len(p))
            ELSE /\ ret.pNil
                 /\ ret.err = "<svg not found"

C9_Witness ==
    /\ pc = "returned"
    /\ ret.err = "nil"
    /\ ~MarkerAt(cmdResult.stdout, 0)
    /\ Cardinality({k \in 0..Len(cmdResult.stdout) :
                       MarkerAt(cmdResult.stdout, k)}) >= 2

(* C8: in the command-line flow the SVG file is written only after every   *)
(* significant (non-blank, non-#) node line had exactly 4 `|`-separated    *)
(* fields, every significant edge line had at least 2 `,`-separated        *)
(* fields, and renderGraph returned without error; at the first malformed  *)
(* line the program exits with status 1 before renderGraph is called: no   *)
(* later line is parsed, no record is made of the malformed line, and no   *)
(* file is written.                                                        *)
CountOf(s, c) == Cardinality({k \in 1..Len(s) : s[k] = c})

Significant(line) ==
    \E k \in 1..Len(line) :
        /\ ~IsSpace(line[k])
        /\ line[k] # "#"
        /\ \A k2 \in 1..(k - 1) : IsSpace(line[k2])

NodeLineWellFormed(line) == CountOf(line, "|") = 3
EdgeLineWellFormed(line) == CountOf(line, ",") >= 1

\* The 1-based numbers of the malformed lines of a file's lines.
Malformed(ls, wellFormed(_)) ==
    {k \in 1..Len(ls) : Significant(ls[k]) /\ ~wellFormed(ls[k])}

SignificantBefore(ls, k) ==
    Cardinality({k2 \in 1..(k - 1) : Significant(ls[k2])})

NothingWritten == ~svgFile.exists /\ ~dotFile.exists /\ ~cmdStdin.exists

C8_SvgOnlyAfterValidInput ==
    LET nls  == IF nodesFile.exists THEN Split(nodesFile.data, Chars("\n")) ELSE <<>>
        els  == IF edgesFile.exists THEN Split(edgesFile.data, Chars("\n")) ELSE <<>>
        nBad == Malformed(nls, NodeLineWellFormed)
        eBad == Malformed(els, EdgeLineWellFormed)
    IN  /\ svgFile.exists =>
               /\ nodesFile.exists /\ edgesFile.exists
               /\ nBad = {} /\ eBad = {}
               /\ pc = "returned" /\ ret.err = "nil" /\ ~ret.pNil
               /\ svgFile.data = ret.p
        /\ (nBad # {} /\ ~flags.version /\ ~flags.genconfig) =>
               LET first == Min(nBad)
               IN  /\ pc = "idle"
                   /\ NothingWritten
                   /\ mpc \in {"flags", "readNodes", "parseNodes", "exited"}
                   /\ li <= first - 1
                   /\ Len(mNodes) <= SignificantBefore(nls, first)
                   /\ edgeStrings = <<>> /\ mEdges = <<>>
                   /\ mpc = "exited" =>
                          /\ exitCode = 1
                          /\ stderr = "Error: Invalid node format"
                          /\ li = first - 1
        /\ (nodesFile.exists /\ nBad = {} /\ eBad # {}
            /\ ~flags.version /\ ~flags.genconfig) =>
               LET first == Min(eBad)
               IN  /\ pc = "idle"
                   /\ NothingWritten
                   /\ mpc \in {"parseEdges"} => li <= first - 1
                   /\ Len(mEdges) <= SignificantBefore(els, first)
                   /\ mpc = "exited" =>
                          /\ exitCode = 1
                          /\ stderr = "Error: Invalid edge format"
                          /\ li = first - 1

C8_Witness ==
    /\ mpc = "exited"
    /\ stderr = "Error: Invalid edge format"
    /\ Len(mNodes) >= 1
    /\ Len(mEdges) = 1
    /\ li = 1
    /\ Len(edgeStrings) = 2
    /\ flags.dot # <<>>

====
